---- MODULE Spec2Model ----
(***************************************************************************)
(* A state-machine model of the mcp-gateway core:                          *)
(*   - service/session.go : Session (proxy session: SSE readers, id        *)
(*     correlation, routing, tools aggregation, outbound event channel)    *)
(*   - service/service.go : McpService (backend supervisor)                *)
(*   - ServiceManager      : registry, port pool, session map, GC, Close   *)
(* Three specifications share the module: SpecSession (one proxy session   *)
(* and its backends), SpecService (registry, supervisors, port pool,       *)
(* shutdown) and SpecGC (session map and the idle GC loop; SpecGCFair is   *)
(* SpecGC with the GC goroutine scheduled fairly).                         *)
(***************************************************************************)
EXTENDS Integers, Sequences, FiniteSets, TLC

(***************************************************************************)
(* Bounds of the model.                                                    *)
(***************************************************************************)
MaxRequests == 1      \* client requests sent through the session

(***************************************************************************)
(* Names are sequences of one-character strings, so that strings.Split and *)
(* fmt.Sprintf("%s_%s") are computed and not assumed.                      *)
(***************************************************************************)
McpX == <<"x">>
McpY == <<"y">>
McpNames == {McpX, McpY}          \* the backends of the registry
ToolT == <<"t">>
ToolU == <<"u">>

\* the tools each backend serves on tools/list
BackendTools(b) == IF b = McpX THEN {ToolT} ELSE {ToolT, ToolU}

\* request.Id is a *int64: <<>> is nil, <<v>> is a value
NoId == <<>>

VARIABLES
  \* ---- Session (service/session.go) ----
  created,         \* CreateProxySession has returned the session to the client
  readers,         \* per backend: position of the SubscribeSSE goroutine
  rcur,            \* per backend: the event a reader holds between lookup and handling
  sseCount,        \* Session.sseCount
  sseConns,        \* keys of Session.sseConns
  mcpMessageUrl,   \* keys of Session.mcpMessageUrl
  messageIds,      \* Session.messageIds : gateway id -> original id
  waitToolsCount,  \* Session.waitToolsCount
  mcpToolsMap,     \* Session.mcpToolsMap : backend -> set of tools
  eventChan,       \* Session.eventChan (buffered channel)
  clock,           \* the last value read from time.Now().UnixMilli()
  sm,              \* the locals of the SendMessage call in progress (pc "idle":
                   \* of the call that returned last)
  smResult,        \* what the last SendMessage call returned
  nreq,            \* number of client requests accepted so far
  inbox,           \* per backend: requests POSTed to it whose answer the
                   \* reader has not read yet (the backend answers in any order)
  posts,           \* the http.Post calls of the current (or last) SendMessage
  closing,         \* the Session.Close call: its position and its range locals
  closedConns,     \* the SSE responses whose Body has been closed
  produced,        \* the number of events the backends have streamed to the
                   \* readers that forward to a front-end which may lag (SpecChan)
  \* ---- McpService (service/service.go) and ServiceManager ----
  retryMax,        \* cfg.McpServiceMgrConfig.GetMcpServiceRetryCount()
  svc,             \* the McpService objects: instance -> fields
  servers,         \* ServiceManager.servers : name -> instance
  usedPorts,       \* ServiceManager.usedPorts
  nextPort,        \* ServiceManager.nextPort
  procs,           \* the child processes ever spawned: child -> state
  sigClosed,       \* the StopSignal channels that are closed (one per spawn)
  mon,             \* the monitorProcess goroutines (one per spawn)
  crashed,         \* the gateway process died of a panic
  shutdown,        \* ServiceManager.Close has returned
  apiResult,       \* what the last registry call returned
  savedConfig,     \* the name -> config document saveConfig wrote last
  \* ---- ServiceManager: the proxy sessions and loopGC ----
  proxySessions,   \* ServiceManager.proxySessions : id -> session
  nextSession,     \* the number of sessions created so far (uuid.New)
  psMutex,         \* who holds ServiceManager.proxySessionsMutex
  gc,              \* the loopGC goroutine: its position and locals
  mgrClock,        \* time.Now(), in units of the session timeout
  \* ---- the callers of the port pool (PortManagerI) ----
  held,            \* the ports handed out and not released: <<call, port>>
  issued,          \* every port GetNextAvailablePort has returned
  portCall         \* the last call of the port pool and its port

closeVars == <<closing, closedConns>>

chanVars == <<produced>>

sessionVars == <<created, readers, rcur, sseCount, sseConns, mcpMessageUrl,
                 messageIds, waitToolsCount, mcpToolsMap, eventChan, clock,
                 sm, smResult, nreq, inbox, posts, closeVars, chanVars>>

serviceVars == <<retryMax, svc, servers, usedPorts, nextPort, procs,
                 sigClosed, mon, crashed, shutdown, apiResult, savedConfig>>

gcVars == <<proxySessions, nextSession, psMutex, gc, mgrClock>>

portVars == <<held, issued, portCall>>

nonSessionVars == <<serviceVars, gcVars, portVars>>

vars == <<sessionVars, serviceVars, gcVars, portVars>>

(***************************************************************************)
(* Pure helpers                                                            *)
(***************************************************************************)
\* strings.Split(s, "_")
RECURSIVE Split(_)
Split(s) ==
  IF \A i \in 1..Len(s) : s[i] # "_"
  THEN <<s>>
  ELSE LET k == CHOOSE i \in 1..Len(s) :
                   s[i] = "_" /\ \A j \in 1..(i-1) : s[j] # "_"
       IN  <<SubSeq(s, 1, k-1)>> \o Split(SubSeq(s, k+1, Len(s)))

\* strings.Join(segs, "_")
RECURSIVE Join(_)
Join(segs) ==
  IF Len(segs) = 0 THEN <<>>
  ELSE IF Len(segs) = 1 THEN segs[1]
  ELSE segs[1] \o <<"_">> \o Join(Tail(segs))

\* fmt.Sprintf("%s_%s", mcpName, tool.Name)
PrefixedName(b, t) == b \o <<"_">> \o t

\* map update m[k] = v on a map kept as a function
MapPut(m, k, v) == [x \in DOMAIN m \cup {k} |-> IF x = k THEN v ELSE m[x]]

\* delete(m, k)
MapDelete(m, k) == [x \in DOMAIN m \ {k} |-> m[x]]

EmptyMap == [x \in {} |-> 0]

(***************************************************************************)
(* Session: construction, subscription, SSE readers                        *)
(***************************************************************************)
EventChanCap == 100

GatewayName == <<"mcp-gateway">>

NameXT == <<"x", "_", "t">>       \* tool t of backend x, as exposed
NameT == <<"t">>                  \* no underscore
NameUT == <<"_", "t">>            \* empty prefix
CallNames == {NameXT, NameT, NameUT}

(***************************************************************************)
(* McpService and ServiceManager: bounds and values                        *)
(***************************************************************************)
MaxRetryCount == 1    \* the configured retry counts explored: 0..MaxRetryCount
MaxSpawns == 2        \* child processes spawned over a run
MaxPorts == 2         \* ports handed out over a run
MaxSessions == 2      \* proxy sessions created over a run
MaxTime == 2          \* last value of the manager's clock
MaxAllocs == 4        \* calls of GetNextAvailablePort by the callers of the pool
MaxEvents == 102      \* events the backends stream to the forwarding readers

BasePort == 10000

\* config.MCPServerConfig: a command backend, a URL-only backend
CmdA == [Command |-> "a", URL |-> ""]
UrlU == [Command |-> "", URL |-> "u"]
Configs == {CmdA, UrlU}

NoResult == [op |-> "none", name |-> <<>>, err |-> FALSE]

\* no call of the port pool yet
NoCall == [op |-> "none", port |-> 0, n |-> 0]

\* the GC loop between two ticks
IdleGC == [pc |-> "sleep", now |-> 0, start |-> {}, visited |-> {}, cur |-> 0,
           defers |-> 0]

\* the session timeout, in clock units
ProxySessionTimeout == 1

\* the client requests of the model; n numbers the request and is its id
ClientRequests(n) ==
  {[method |-> "tools/list", id |-> <<n>>, name |-> <<>>],
   [method |-> "initialize", id |-> <<n>>, name |-> <<>>],
   [method |-> "notifications/initialized", id |-> NoId, name |-> <<>>]}
  \cup {[method |-> "tools/call", id |-> <<n>>, name |-> c] : c \in CallNames}

IdleSm == [pc |-> "idle", req |-> [method |-> "", id |-> NoId, name |-> <<>>],
           n |-> 0, try |-> 0, single |-> <<>>, name |-> <<>>, visited |-> {},
           snap |-> {}]

\* no Session.Close call yet
NoClose == [pc |-> "none", start |-> {}, visited |-> {}]

\* NewSession
InitSession ==
  /\ closing = NoClose
  /\ produced = 0
  /\ closedConns = {}
  /\ created = FALSE
  /\ readers = [b \in McpNames |-> "none"]
  /\ rcur = [b \in McpNames |-> <<>>]
  /\ sseCount = 0
  /\ sseConns = {}
  /\ mcpMessageUrl = {}
  /\ messageIds = EmptyMap
  /\ waitToolsCount = 0
  /\ mcpToolsMap = EmptyMap
  /\ eventChan = <<>>
  /\ clock = 0
  /\ sm = IdleSm
  /\ smResult = "none"
  /\ nreq = 0
  /\ inbox = [b \in McpNames |-> {}]
  /\ posts = {}

\* NewServiceManager: no server, no port in use, no session, the GC loop waiting
\* for its first tick
InitManager ==
  /\ svc = <<>>
  /\ servers = EmptyMap
  /\ usedPorts = {}
  /\ nextPort = BasePort
  /\ procs = <<>>
  /\ sigClosed = {}
  /\ mon = <<>>
  /\ crashed = FALSE
  /\ shutdown = FALSE
  /\ apiResult = NoResult
  /\ savedConfig = EmptyMap
  /\ proxySessions = EmptyMap
  /\ nextSession = 0
  /\ psMutex = "none"
  /\ gc = IdleGC
  /\ mgrClock = 0
  /\ held = {}
  /\ issued = {}
  /\ portCall = NoCall

\* the gateway after start-up, with a retry maximum of the set R configured
Init(R) ==
  /\ retryMax \in R
  /\ InitSession
  /\ InitManager

InitSpecSession == Init({0})

InitSpecService == Init(0..MaxRetryCount)

InitSpecGC == Init({0})

\* Session.IsReady
IsReady == sseCount = Cardinality(mcpMessageUrl)

\* a mutation of SendEvent: a full channel gives up its oldest event
SendEventDropOldest(ch, e) ==
  IF Len(ch) < EventChanCap THEN Append(ch, e) ELSE Append(Tail(ch), e)

\* Session.SendEvent: non-blocking send on the buffered channel
SendEvent(ch, e) == IF Len(ch) < EventChanCap THEN Append(ch, e) ELSE ch

\* ServiceManager.CreateProxySession for this session: SubscribeSSE (up to
\* its go statement) for every backend of S, the backends found running, and
\* then the session is put in the map, where clients find it
SubscribeSSE(S) ==
  /\ ~created
  /\ created' = TRUE
  /\ readers' = [b \in McpNames |-> IF b \in S THEN "connecting" ELSE "none"]
  /\ sseCount' = sseCount + Cardinality(S)
  /\ UNCHANGED nonSessionVars
  /\ UNCHANGED closeVars
  /\ UNCHANGED chanVars
  /\ UNCHANGED <<rcur, sseConns, mcpMessageUrl, messageIds, waitToolsCount,
                 mcpToolsMap, eventChan, clock, sm, smResult, nreq, inbox,
                 posts>>

\* a mutation of ConnectFail: the reader exits without lowering sseCount
ConnectFailNoCount(b) ==
  /\ readers[b] = "connecting"
  /\ readers' = [readers EXCEPT ![b] = "exited"]
  /\ UNCHANGED nonSessionVars
  /\ UNCHANGED closeVars
  /\ UNCHANGED chanVars
  /\ UNCHANGED <<created, rcur, sseCount, sseConns, mcpMessageUrl, messageIds,
                 waitToolsCount, mcpToolsMap, eventChan, clock, sm, smResult,
                 nreq, inbox, posts>>

\* reader: http.Get fails; the deferred function runs
ConnectFail(b) ==
  /\ readers[b] = "connecting"
  /\ readers' = [readers EXCEPT ![b] = "exited"]
  /\ sseCount' = sseCount - 1
  /\ UNCHANGED nonSessionVars
  /\ UNCHANGED closeVars
  /\ UNCHANGED chanVars
  /\ UNCHANGED <<created, rcur, sseConns, mcpMessageUrl, messageIds,
                 waitToolsCount, mcpToolsMap, eventChan, clock, sm, smResult,
                 nreq, inbox, posts>>

\* reader: http.Get succeeds and the response is recorded in sseConns; the
\* backend opens its stream with the endpoint event, which is not read yet
ConnectOk(b) ==
  /\ readers[b] = "connecting"
  /\ readers' = [readers EXCEPT ![b] = "connected"]
  /\ sseConns' = sseConns \cup {b}
  /\ UNCHANGED nonSessionVars
  /\ UNCHANGED closeVars
  /\ UNCHANGED chanVars
  /\ UNCHANGED <<created, rcur, sseCount, mcpMessageUrl, messageIds,
                 waitToolsCount, mcpToolsMap, eventChan, clock, sm, smResult,
                 nreq, inbox, posts>>

\* reader: reader.ReadString fails (stream closed or broken); both deferred
\* functions run. What the backend still had to answer is lost
ReadError(b) ==
  /\ readers[b] \in {"connected", "reading"}
  /\ readers' = [readers EXCEPT ![b] = "exited"]
  /\ sseConns' = sseConns \ {b}
  /\ sseCount' = sseCount - 1
  /\ inbox' = [inbox EXCEPT ![b] = {}]
  /\ UNCHANGED nonSessionVars
  /\ UNCHANGED closeVars
  /\ UNCHANGED chanVars
  /\ UNCHANGED <<created, rcur, mcpMessageUrl, messageIds, waitToolsCount,
                 mcpToolsMap, eventChan, clock, sm, smResult, nreq, posts>>

\* reader: the endpoint event is read and recorded in mcpMessageUrl (its data
\* is a path and has no id, so nothing is forwarded)
ReadEndpoint(b) ==
  /\ readers[b] = "connected"
  /\ readers' = [readers EXCEPT ![b] = "reading"]
  /\ mcpMessageUrl' = mcpMessageUrl \cup {b}
  /\ UNCHANGED nonSessionVars
  /\ UNCHANGED closeVars
  /\ UNCHANGED chanVars
  /\ UNCHANGED <<created, rcur, sseCount, sseConns, messageIds,
                 waitToolsCount, mcpToolsMap, eventChan, clock, sm, smResult,
                 nreq, inbox, posts>>

\* what a backend answers to a request, by method
AnswerKind(method) ==
  IF method = "tools/list" THEN "tools"
  ELSE IF method = "initialize" THEN "serverInfo"
  ELSE "call"

\* reader: the backend's answer to request r is read as a "message" event
\* whose data has the id of r; getRealMessageId looks it up, and an id that
\* is not in messageIds ends the handling
ReadLookup(b, r) ==
  /\ readers[b] = "reading"
  /\ r \in inbox[b]
  /\ inbox' = [inbox EXCEPT ![b] = inbox[b] \ {r}]
  /\ IF r.id[1] \in DOMAIN messageIds
     THEN /\ readers' = [readers EXCEPT ![b] = "looked"]
          /\ rcur' = [rcur EXCEPT ![b] =
                        <<[event |-> "message", id |-> r.id[1],
                           kind |-> AnswerKind(r.method), n |-> r.n,
                           real |-> messageIds[r.id[1]]]>>]
     ELSE UNCHANGED <<readers, rcur>>
  /\ UNCHANGED nonSessionVars
  /\ UNCHANGED closeVars
  /\ UNCHANGED chanVars
  /\ UNCHANGED <<created, sseCount, sseConns, mcpMessageUrl, messageIds,
                 waitToolsCount, mcpToolsMap, eventChan, clock, sm, smResult,
                 nreq, posts>>

\* the tools of backend b as recorded in mcpToolsMap[b]
RecordedTools(b, ts) == {[name |-> PrefixedName(b, t), realName |-> t] : t \in ts}

\* the tools of a backend's own answer, as they appear in its JSON
RawTools(ts) == {[name |-> t, realName |-> <<>>] : t \in ts}

\* allTools: every tool of every entry of mcpToolsMap
AllTools(m) == UNION {m[b] : b \in DOMAIN m}

\* reader: the rest of the handling of a correlated message: removeMessageId,
\* the id rewrite, the tools aggregation or serverInfo rewrite, SendEvent
ReadHandle(b) ==
  /\ readers[b] = "looked"
  /\ LET ev == rcur[b][1]
         real == rcur[b][1].real
         \* strings.Replace(data, `"id":<g>`, `"id":<real>`, 1); the backends
         \* write compact JSON, in which the literal is found
         outId == real
         cnt == waitToolsCount - 1
         toolsMap == MapPut(mcpToolsMap, b, RecordedTools(b, BackendTools(b)))
     IN
       /\ messageIds' = MapDelete(messageIds, ev.id)
       /\ IF ev.kind = "tools"
          THEN /\ mcpToolsMap' = toolsMap
               /\ waitToolsCount' = cnt
               /\ eventChan' =
                    IF cnt > 0
                    THEN SendEvent(eventChan,
                           [event |-> ev.event, id |-> outId, kind |-> "tools",
                            tools |-> RawTools(BackendTools(b)), info |-> <<>>,
                            n |-> ev.n])
                    ELSE SendEvent(eventChan,
                           [event |-> ev.event, id |-> real, kind |-> "tools",
                            tools |-> AllTools(toolsMap), info |-> <<>>,
                            n |-> ev.n])
          ELSE /\ UNCHANGED <<mcpToolsMap, waitToolsCount>>
               /\ eventChan' = SendEvent(eventChan,
                    [event |-> ev.event, id |-> outId, kind |-> ev.kind,
                     tools |-> {},
                     info |-> IF ev.kind = "serverInfo" THEN GatewayName ELSE <<>>,
                     n |-> ev.n])
  /\ readers' = [readers EXCEPT ![b] = "reading"]
  /\ rcur' = [rcur EXCEPT ![b] = <<>>]
  /\ UNCHANGED nonSessionVars
  /\ UNCHANGED closeVars
  /\ UNCHANGED chanVars
  /\ UNCHANGED <<created, sseCount, sseConns, mcpMessageUrl, clock, sm,
                 smResult, nreq, inbox, posts>>

(***************************************************************************)
(* Session.SendMessage and sendToMcp                                       *)
(***************************************************************************)
\* the routing decision of SendMessage: <<singleMcp, params.name>>
Route(req) ==
  LET names == Split(req.name) IN
    IF req.method = "tools/call" /\ Len(names) > 1
    THEN <<names[1], Join(Tail(names))>>
    ELSE <<(<<>>), req.name>>

\* Session.generateMessageId: the gateway id is the clock, and the mapping is
\* stored under it whatever was there
GenerateMessageId(ids, now, realMessageId) == MapPut(ids, now, realMessageId)

\* backend b after a successful POST of request r: it will answer on the SSE
\* stream of this session if that stream is still open
Deliver(box, b, r) ==
  IF r.id # NoId /\ readers[b] \in {"reading", "looked"}
  THEN [box EXCEPT ![b] = box[b] \cup {r}]
  ELSE box

\* the record of one http.Post of sendToMcp
PostOf(b, ok, now) ==
  [n |-> sm.n, to |-> b, method |-> sm.req.method, name |-> sm.name,
   id |-> IF sm.req.id = NoId THEN NoId ELSE <<now>>, ok |-> ok]

\* a client POSTs a request: SendMessage is entered
SendMessage(req) ==
  /\ created
  /\ sm.pc = "idle"
  /\ nreq < MaxRequests
  /\ nreq' = nreq + 1
  /\ sm' = [pc |-> "check", req |-> req, n |-> nreq + 1, try |-> 3,
            single |-> <<>>, name |-> req.name, visited |-> {}, snap |-> {}]
  /\ smResult' = "none"
  /\ posts' = {}
  /\ UNCHANGED nonSessionVars
  /\ UNCHANGED closeVars
  /\ UNCHANGED chanVars
  /\ UNCHANGED <<created, readers, rcur, sseCount, sseConns, mcpMessageUrl,
                 messageIds, waitToolsCount, mcpToolsMap, eventChan, clock,
                 inbox>>

\* SendMessage: one turn of the readiness loop, then the routing decision
SM_Check ==
  /\ sm.pc = "check"
  /\ IF IsReady
     THEN /\ sm' = [sm EXCEPT !.pc = IF Route(sm.req)[1] = <<>>
                                     THEN "range" ELSE "single",
                              !.single = Route(sm.req)[1],
                              !.name = Route(sm.req)[2],
                              !.snap = mcpMessageUrl]
          /\ UNCHANGED <<clock, smResult>>
     ELSE IF sm.try < 0
          THEN /\ sm' = [sm EXCEPT !.pc = "idle"]
               /\ smResult' = "not ready"
               /\ UNCHANGED clock
          ELSE \* time.Sleep(time.Second)
               /\ clock' = clock + 1
               /\ sm' = [sm EXCEPT !.try = sm.try - 1]
               /\ UNCHANGED smResult
  /\ UNCHANGED nonSessionVars
  /\ UNCHANGED closeVars
  /\ UNCHANGED chanVars
  /\ UNCHANGED <<created, readers, rcur, sseCount, sseConns, mcpMessageUrl,
                 messageIds, waitToolsCount, mcpToolsMap, eventChan, nreq,
                 inbox, posts>>

\* SendMessage, broadcast: sendToMcp for the next key of the range over
\* mcpMessageUrl; ok is whether the POST got a 2xx answer
SM_Post(b, ok, now) ==
  /\ sm.pc = "range"
  /\ b \in mcpMessageUrl \ sm.visited
  /\ clock' = IF sm.req.id = NoId THEN clock ELSE now
  /\ messageIds' = IF sm.req.id = NoId THEN messageIds
                   ELSE GenerateMessageId(messageIds, now, sm.req.id[1])
  /\ posts' = posts \cup {PostOf(b, ok, now)}
  /\ inbox' = IF ok THEN Deliver(inbox, b, PostOf(b, ok, now)) ELSE inbox
  /\ sm' = [sm EXCEPT !.visited = sm.visited \cup {b},
                      !.pc = IF ok /\ sm.req.method = "tools/list"
                             THEN "inc" ELSE "range"]
  /\ UNCHANGED nonSessionVars
  /\ UNCHANGED closeVars
  /\ UNCHANGED chanVars
  /\ UNCHANGED <<created, readers, rcur, sseCount, sseConns, mcpMessageUrl,
                 waitToolsCount, mcpToolsMap, eventChan, smResult, nreq>>

\* a mutation of SM_Inc: the counter is raised by two
SM_IncTwice ==
  /\ sm.pc = "inc"
  /\ waitToolsCount' = waitToolsCount + 2
  /\ sm' = [sm EXCEPT !.pc = "range"]
  /\ UNCHANGED nonSessionVars
  /\ UNCHANGED closeVars
  /\ UNCHANGED chanVars
  /\ UNCHANGED <<created, readers, rcur, sseCount, sseConns, mcpMessageUrl,
                 messageIds, mcpToolsMap, eventChan, clock, smResult, nreq,
                 inbox, posts>>

\* SendMessage, broadcast of tools/list: waitToolsCount.Add(1) after the POST
SM_Inc ==
  /\ sm.pc = "inc"
  /\ waitToolsCount' = waitToolsCount + 1
  /\ sm' = [sm EXCEPT !.pc = "range"]
  /\ UNCHANGED nonSessionVars
  /\ UNCHANGED closeVars
  /\ UNCHANGED chanVars
  /\ UNCHANGED <<created, readers, rcur, sseCount, sseConns, mcpMessageUrl,
                 messageIds, mcpToolsMap, eventChan, clock, smResult, nreq,
                 inbox, posts>>

\* SendMessage, broadcast: the range is over; a key inserted while the range
\* ran may or may not have been produced
SM_RangeEnd ==
  /\ sm.pc = "range"
  /\ sm.snap \subseteq sm.visited
  /\ sm' = [sm EXCEPT !.pc = "idle"]
  /\ smResult' = "ok"
  /\ UNCHANGED nonSessionVars
  /\ UNCHANGED closeVars
  /\ UNCHANGED chanVars
  /\ UNCHANGED <<created, readers, rcur, sseCount, sseConns, mcpMessageUrl,
                 messageIds, waitToolsCount, mcpToolsMap, eventChan, clock,
                 nreq, inbox, posts>>

\* SendMessage, routed: sendToMcp(singleMcp); the gateway id is generated
\* before the target is looked up
SM_Single(ok, now) ==
  /\ sm.pc = "single"
  /\ clock' = IF sm.req.id = NoId THEN clock ELSE now
  /\ messageIds' = IF sm.req.id = NoId THEN messageIds
                   ELSE GenerateMessageId(messageIds, now, sm.req.id[1])
  /\ IF sm.single \notin mcpMessageUrl
     THEN /\ smResult' = "no url"
          /\ UNCHANGED <<posts, inbox>>
     ELSE /\ posts' = posts \cup {PostOf(sm.single, ok, now)}
          /\ inbox' = IF ok
                      THEN Deliver(inbox, sm.single, PostOf(sm.single, ok, now))
                      ELSE inbox
          /\ smResult' = IF ok THEN "ok" ELSE "post failed"
  /\ sm' = [sm EXCEPT !.pc = "idle"]
  /\ UNCHANGED nonSessionVars
  /\ UNCHANGED closeVars
  /\ UNCHANGED chanVars
  /\ UNCHANGED <<created, readers, rcur, sseCount, sseConns, mcpMessageUrl,
                 waitToolsCount, mcpToolsMap, eventChan, nreq>>

\* the values a read of the clock may return: the millisecond of the last
\* read, or a later one
Now == {clock, clock + 1}

NextSession ==
  \/ \E S \in SUBSET McpNames : SubscribeSSE(S)
  \/ \E b \in McpNames : ConnectFail(b)
  \/ \E b \in McpNames : ConnectOk(b)
  \/ \E b \in McpNames : ReadError(b)
  \/ \E b \in McpNames : ReadEndpoint(b)
  \/ \E b \in McpNames : \E r \in inbox[b] : ReadLookup(b, r)
  \/ \E b \in McpNames : ReadHandle(b)
  \/ \E req \in ClientRequests(nreq + 1) : SendMessage(req)
  \/ SM_Check
  \/ \E b \in McpNames, ok \in BOOLEAN, now \in Now : SM_Post(b, ok, now)
  \/ SM_Inc
  \/ SM_RangeEnd
  \/ \E ok \in BOOLEAN, now \in Now : SM_Single(ok, now)

SpecSession == InitSpecSession /\ [][NextSession]_vars

(***************************************************************************)
(* The event channel between the readers and the front-end: the readers    *)
(* forward the events of their backends with SendEvent, the front-end      *)
(* receives from GetEventChan() at its own pace.                           *)
(***************************************************************************)
\* the k-th event the backends stream
StreamEvent(k) ==
  [event |-> "message", id |-> k, kind |-> "call", tools |-> {}, info |-> <<>>,
   n |-> k]

\* a reader forwards the next event: s.SendEvent(SessionMsg{...})
ForwardEvent ==
  /\ produced < MaxEvents
  /\ produced' = produced + 1
  /\ eventChan' = SendEvent(eventChan, StreamEvent(produced + 1))
  /\ UNCHANGED nonSessionVars
  /\ UNCHANGED closeVars
  /\ UNCHANGED <<created, readers, rcur, sseCount, sseConns, mcpMessageUrl,
                 messageIds, waitToolsCount, mcpToolsMap, clock, sm, smResult,
                 nreq, inbox, posts>>

\* the front-end receives one event from the channel
ReceiveEvent ==
  /\ Len(eventChan) > 0
  /\ eventChan' = Tail(eventChan)
  /\ UNCHANGED nonSessionVars
  /\ UNCHANGED closeVars
  /\ UNCHANGED chanVars
  /\ UNCHANGED <<created, readers, rcur, sseCount, sseConns, mcpMessageUrl,
                 messageIds, waitToolsCount, mcpToolsMap, clock, sm, smResult,
                 nreq, inbox, posts>>

NextChan ==
  \/ ForwardEvent
  \/ ReceiveEvent

InitSpecChan == Init({0})

SpecChan == InitSpecChan /\ [][NextChan]_vars

\* the session variables Session.Close leaves alone
openVars == <<created, readers, rcur, sseCount, sseConns, mcpMessageUrl,
              messageIds, waitToolsCount, mcpToolsMap, eventChan, clock,
              sm, smResult, nreq, inbox, posts, chanVars>>

\* Session.Close is called (by CloseProxySession, loopGC or
\* ServiceManager.Close) and starts to range over sseConns
CloseBegin ==
  /\ created
  /\ closing.pc = "none"
  /\ closing' = [pc |-> "range", start |-> sseConns, visited |-> {}]
  /\ UNCHANGED closedConns
  /\ UNCHANGED openVars
  /\ UNCHANGED nonSessionVars

\* Close: conn.Body.Close() for one entry of sseConns. The range is not
\* under sseConnMutex: an entry a reader records meanwhile may be produced
\* or not, an entry a reader deletes meanwhile is not produced
CloseConn(b) ==
  /\ closing.pc = "range"
  /\ b \in sseConns \ closing.visited
  /\ closing' = [closing EXCEPT !.visited = @ \cup {b}]
  /\ closedConns' = closedConns \cup {b}
  /\ UNCHANGED openVars
  /\ UNCHANGED nonSessionVars

\* Close: the range ends, then sseWaitGroup.Wait() is called
CloseRangeEnd ==
  /\ closing.pc = "range"
  /\ (closing.start \cap sseConns) \subseteq closing.visited
  /\ closing' = [closing EXCEPT !.pc = "wait"]
  /\ UNCHANGED closedConns
  /\ UNCHANGED openVars
  /\ UNCHANGED nonSessionVars

\* Close: sseWaitGroup.Wait() returns once every reader has called Done (the
\* readers call sseWaitGroup.Add/Done together with sseCount.Add), and
\* Close returns
CloseReturn ==
  /\ closing.pc = "wait"
  /\ sseCount = 0
  /\ closing' = [closing EXCEPT !.pc = "done"]
  /\ UNCHANGED closedConns
  /\ UNCHANGED openVars
  /\ UNCHANGED nonSessionVars

\* a step of the Close call
CloseStep ==
  \/ CloseBegin
  \/ \E b \in McpNames : CloseConn(b)
  \/ CloseRangeEnd
  \/ CloseReturn

\* a step a reader takes without waiting for its backend: http.Get returns,
\* an event that was read is handled, a read on a closed Body fails
ReaderStep ==
  \/ \E b \in McpNames : ConnectOk(b) \/ ConnectFail(b)
  \/ \E b \in McpNames : ReadHandle(b)
  \/ \E b \in closedConns : ReadError(b)

\* the session with its Close call
NextClose ==
  \/ NextSession
  \/ CloseStep

\* the Close call and the readers are scheduled
SpecCloseFair ==
  InitSpecSession /\ [][NextClose]_vars /\ WF_vars(CloseStep) /\ WF_vars(ReaderStep)

(***************************************************************************)
(* Claims about the session                                                *)
(***************************************************************************)
\* the backends the current (or last) SendMessage call POSTed to with success
PostedOk == {p.to : p \in {q \in posts : q.ok}}

\* the positions of the channel holding a tools result that answers request n
ToolsEvents(n) ==
  {i \in 1..Len(eventChan) : eventChan[i].kind = "tools" /\ eventChan[i].n = n}

\* the union of the tool lists of the backends of S, each tool prefixed
MergedOf(S) == UNION {RecordedTools(b, BackendTools(b)) : b \in S}

\* a merged result: every tool carries its realName
Merged(e) == e.kind = "tools" /\ \A t \in e.tools : t.realName # <<>>

\* every backend of the broadcast answers: no POST failed, no reader is gone
AllAnswer ==
  /\ \A p \in posts : p.ok
  /\ \A b \in McpNames : readers[b] # "exited"

\* every answer to the current request has been read and handled
AllHandled ==
  /\ sm.pc = "idle"
  /\ \A b \in McpNames : rcur[b] = <<>> /\ \A r \in inbox[b] : r.n # sm.n

\* C1: a tools/list broadcast whose backends all answer puts exactly one
\* tools/list response on the channel, and that response is the merge of
\* all the backends of the broadcast: no partial or raw answer is ever put
C1_ToolsListAtomic ==
  (sm.n > 0 /\ sm.req.method = "tools/list" /\ AllAnswer) =>
    /\ Cardinality(ToolsEvents(sm.n)) <= 1
    /\ sm.pc = "idle" =>
         \A i \in ToolsEvents(sm.n) : eventChan[i].tools = MergedOf(PostedOk)
    /\ (AllHandled /\ PostedOk # {}) => Cardinality(ToolsEvents(sm.n)) = 1

\* C2: a request with an id whose targets respond gets exactly one response
\* on the channel, and a response carries the id of the request it answers
C2_OneResponsePerId ==
  /\ \A i \in 1..Len(eventChan) : eventChan[i].id = eventChan[i].n
  /\ \A n \in 1..nreq :
       Cardinality({i \in 1..Len(eventChan) : eventChan[i].id = n}) <= 1
  /\ (sm.n > 0 /\ sm.req.id # NoId /\ AllAnswer /\ AllHandled /\ PostedOk # {}) =>
       Cardinality({i \in 1..Len(eventChan) : eventChan[i].id = sm.n}) = 1

\* a reader task of the session exists: started and not terminated
ReaderExists(b) == readers[b] \in {"connecting", "connected", "reading", "looked"}

\* the reader has received its endpoint event
HasEndpoint(b) == readers[b] \in {"reading", "looked"}

\* C3: IsReady() is true iff every reader task that exists has received its
\* endpoint event
C3_ReadyIffEndpoints ==
  IsReady <=> \A b \in McpNames : ReaderExists(b) => HasEndpoint(b)

HasUnderscore(s) == \E i \in 1..Len(s) : s[i] = "_"
FirstUnderscore(s) ==
  CHOOSE i \in 1..Len(s) : s[i] = "_" /\ \A j \in 1..(i-1) : s[j] # "_"
BeforeFirst(s) == SubSeq(s, 1, FirstUnderscore(s) - 1)
AfterFirst(s) == SubSeq(s, FirstUnderscore(s) + 1, Len(s))

\* the call got past the readiness loop and has returned
Returned == sm.pc = "idle" /\ sm.n > 0 /\ smResult \in {"ok", "post failed", "no url"}

\* C4: a tools/call whose name has an underscore is POSTed to the backend
\* named before the first underscore and to no other, with the name after
\* it (exactly once if that backend is in mcpMessageUrl); every other
\* request is POSTed unchanged to every backend in mcpMessageUrl
C4_Routing ==
  Returned =>
    IF sm.req.method = "tools/call" /\ HasUnderscore(sm.req.name)
    THEN /\ \A p \in posts : /\ p.to = BeforeFirst(sm.req.name)
                             /\ p.name = AfterFirst(sm.req.name)
         /\ BeforeFirst(sm.req.name) \in mcpMessageUrl => Cardinality(posts) = 1
    ELSE /\ sm.snap \subseteq {p.to : p \in posts}
         /\ \A p \in posts : p.to \in mcpMessageUrl /\ p.name = sm.req.name

\* C5: a merged tools/list response has the id of the request and exactly
\* the prefixed tools of the backends of the broadcast
C5_MergedIsUnion ==
  (sm.pc = "idle" /\ sm.n > 0 /\ sm.req.method = "tools/list") =>
    \A i \in ToolsEvents(sm.n) :
      Merged(eventChan[i]) =>
        /\ eventChan[i].id = sm.req.id[1]
        /\ eventChan[i].tools = MergedOf(PostedOk)

(***************************************************************************)
(* McpService (service/service.go)                                         *)
(*                                                                         *)
(* svc[i] is one McpService object.  Its Cmd and StopSignal fields hold    *)
(* the number of the child process they were made for, 0 for nil.  procs   *)
(* lists the children ever spawned: the object they belong to, whether     *)
(* they run, exited by themselves ("exit0", "exitErr") or were killed by   *)
(* Stop ("killed" when Stop was called for a stop, delete, shutdown or     *)
(* the "exited" log line, "reaped" when the monitor called it), whether    *)
(* Wait has returned their status, and after which exit they were          *)
(* started ("none": by DeployServer).  mon[c] is the monitorProcess        *)
(* goroutine that Start spawned together with child c.                     *)
(***************************************************************************)
\* the state the methods of McpService read and write
World == [svc |-> svc, usedPorts |-> usedPorts, nextPort |-> nextPort,
          procs |-> procs, sigClosed |-> sigClosed, mon |-> mon]

SetWorld(w) ==
  /\ svc' = w.svc
  /\ usedPorts' = w.usedPorts
  /\ nextPort' = w.nextPort
  /\ procs' = w.procs
  /\ sigClosed' = w.sigClosed
  /\ mon' = w.mon

\* NewMcpService: the retry counter starts at the configured maximum
NewMcpService(name, config) ==
  [Name |-> name, Config |-> config, Cmd |-> 0, StopSignal |-> 0, Port |-> 0,
   Status |-> "stopped", RetryCount |-> retryMax]

\* McpService.IsSSE: its result ...
IsSSE(s) == s.Config.Command = "" /\ s.Config.URL # ""

\* ... and its effect on the object
AfterIsSSE(w, i) ==
  IF IsSSE(w.svc[i]) THEN [w EXCEPT !.svc[i].Status = "running"] ELSE w

\* a mutation of GetNextAvailablePort: the first port of the range, always
FirstPort(used, next) == BasePort

\* a mutation of GetNextAvailablePort: one port is skipped
SkipPort(used, next) == next + 1

\* a mutation of ReleasePort: the whole used set is dropped
ReleaseAll(used, port) == {}

\* ServiceManager.GetNextAvailablePort: the port returned
GetNextAvailablePort(used, next) ==
  CHOOSE p \in next..(next + Cardinality(used)) :
    p \notin used /\ \A q \in next..(p - 1) : q \in used

\* ServiceManager.ReleasePort
ReleasePort(used, port) == used \ {port}

\* McpService.Stop
Stop(w, i, explicit) ==
  LET s == w.svc[i] IN
  IF IsSSE(s) THEN AfterIsSSE(w, i)
  ELSE IF s.Status # "running" THEN w
  ELSE IF s.Cmd = 0 THEN w
  ELSE [w EXCEPT
          !.sigClosed = IF s.StopSignal # 0 THEN @ \cup {s.StopSignal} ELSE @,
          !.procs[s.Cmd].state =
             IF @ = "running" THEN (IF explicit THEN "killed" ELSE "reaped")
             ELSE @,
          !.usedPorts = IF s.Port # 0 THEN ReleasePort(@, s.Port) ELSE @,
          !.svc[i] = [s EXCEPT !.StopSignal = 0, !.Cmd = 0, !.Port = 0,
                               !.Status = "stopped"]]

\* what creating the log file and spawning the child may do
StartOutcomes == {"ok", "logfail", "spawnfail"}

\* McpService.Start; after is the exit the monitor restarts the child after
Start(w, i, outcome, after) ==
  LET s == w.svc[i]
      port == IF s.Port = 0 THEN GetNextAvailablePort(w.usedPorts, w.nextPort)
              ELSE s.Port
      w1 == IF s.Port = 0
            THEN [w EXCEPT !.usedPorts = @ \cup {port}, !.nextPort = port + 1,
                           !.svc[i].Port = port, !.svc[i].Status = "starting"]
            ELSE [w EXCEPT !.svc[i].Status = "starting"]
      c == Len(w.procs) + 1
  IN
  IF IsSSE(s) THEN [w |-> AfterIsSSE(w, i), err |-> TRUE]
  ELSE IF s.Status = "running" THEN [w |-> w, err |-> TRUE]
  ELSE IF outcome # "ok" THEN [w |-> w1, err |-> TRUE]
  ELSE [w |-> [w1 EXCEPT
                 !.procs = Append(@, [inst |-> i, state |-> "running",
                                      waited |-> FALSE, after |-> after]),
                 !.mon = Append(@, [inst |-> i, pc |-> "start", cmd |-> 0]),
                 !.svc[i].Cmd = c,
                 !.svc[i].StopSignal = c,
                 !.svc[i].Status = "running"],
        err |-> FALSE]

\* a mutation of Restart: the object is stopped and not started again
RestartStopOnly(w, i, outcome) == Stop(w, i, TRUE)

\* McpService.Restart: the error of Start is dropped
Restart(w, i, outcome) ==
  IF IsSSE(w.svc[i]) THEN AfterIsSSE(w, i)
  ELSE Start(Stop(w, i, TRUE), i, outcome, "none").w

\* the run has children and ports left to hand out
Bounded == Len(procs) < MaxSpawns /\ nextPort < BasePort + MaxPorts

Alive == ~crashed

\* the child exits by itself, with status 0 or not
ChildExit(c, state) ==
  /\ procs[c].state = "running"
  /\ procs' = [procs EXCEPT ![c].state = state]
  /\ UNCHANGED <<retryMax, svc, servers, usedPorts, nextPort, sigClosed, mon,
                 crashed, shutdown, apiResult>>
  /\ UNCHANGED savedConfig
  /\ UNCHANGED <<sessionVars, gcVars, portVars>>

\* McpService.Write: the child prints a line that contains "exited"
Write(c) ==
  /\ Alive
  /\ procs[c].state = "running"
  /\ SetWorld(Stop(World, procs[c].inst, TRUE))
  /\ UNCHANGED <<retryMax, servers, crashed, shutdown, apiResult>>
  /\ UNCHANGED savedConfig
  /\ UNCHANGED <<sessionVars, gcVars, portVars>>

\* monitorProcess, its first lines
MonStart(m) ==
  /\ Alive
  /\ mon[m].pc = "start"
  /\ IF IsSSE(svc[mon[m].inst])
     THEN SetWorld([AfterIsSSE(World, mon[m].inst) EXCEPT !.mon[m].pc = "done"])
     ELSE SetWorld([World EXCEPT !.mon[m].pc = "top"])
  /\ UNCHANGED <<retryMax, servers, crashed, shutdown, apiResult>>
  /\ UNCHANGED savedConfig
  /\ UNCHANGED <<sessionVars, gcVars, portVars>>

\* monitorProcess, the select at the top of the loop: a closed StopSignal
\* ends the monitor, a nil or open one takes the default branch
MonSelect(m) ==
  /\ Alive
  /\ mon[m].pc = "top"
  /\ LET sig == svc[mon[m].inst].StopSignal IN
     mon' = [mon EXCEPT ![m].pc = IF sig # 0 /\ sig \in sigClosed
                                  THEN "done" ELSE "default"]
  /\ UNCHANGED <<retryMax, svc, servers, usedPorts, nextPort, procs, sigClosed,
                 crashed, shutdown, apiResult>>
  /\ UNCHANGED savedConfig
  /\ UNCHANGED <<sessionVars, gcVars, portVars>>

\* monitorProcess, s.Cmd.Wait() is called: on a nil Cmd the gateway panics
MonWaitCall(m) ==
  /\ Alive
  /\ mon[m].pc = "default"
  /\ LET cmd == svc[mon[m].inst].Cmd IN
     IF cmd = 0
     THEN /\ crashed' = TRUE
          /\ mon' = [mon EXCEPT ![m].pc = "panic"]
     ELSE /\ mon' = [mon EXCEPT ![m].pc = "wait", ![m].cmd = cmd]
          /\ UNCHANGED crashed
  /\ UNCHANGED <<retryMax, svc, servers, usedPorts, nextPort, procs, sigClosed,
                 shutdown, apiResult>>
  /\ UNCHANGED savedConfig
  /\ UNCHANGED <<sessionVars, gcVars, portVars>>

\* exec.Cmd.Wait: nil for the first Wait of a child that exited with status 0
WaitErr(p) == ~(p.state = "exit0" /\ ~p.waited)

\* monitorProcess, s.Cmd.Wait() returns, and what the monitor does then
MonWaitReturn(m, outcome) ==
  /\ Alive
  /\ mon[m].pc = "wait"
  /\ procs[mon[m].cmd].state # "running"
  /\ LET i == mon[m].inst
         p == procs[mon[m].cmd]
         w0 == [World EXCEPT !.procs[mon[m].cmd].waited = TRUE]
     IN
     IF ~WaitErr(p)
     THEN SetWorld([w0 EXCEPT !.mon[m].pc = "top"])
     ELSE IF svc[i].RetryCount > retryMax
     THEN SetWorld([Stop(w0, i, FALSE) EXCEPT !.mon[m].pc = "gaveup"])
     ELSE /\ Bounded
          /\ LET w1 == [w0 EXCEPT !.svc[i].RetryCount = @ + 1]
                 w2 == Start(Stop(w1, i, FALSE), i, outcome, p.state).w
             IN SetWorld([w2 EXCEPT !.mon[m].pc = "top"])
  /\ UNCHANGED <<retryMax, servers, crashed, shutdown, apiResult>>
  /\ UNCHANGED savedConfig
  /\ UNCHANGED <<sessionVars, gcVars, portVars>>

(***************************************************************************)
(* ServiceManager: the registry                                            *)
(***************************************************************************)
\* the HTTP API is served
Open == Alive /\ ~shutdown

\* ServiceManager.saveConfig: the document written, the config of every
\* server of the registry
saveConfig(registry, objects) ==
  [n \in DOMAIN registry |-> objects[registry[n]].Config]

\* ServiceManager.DeployServer
DeployServer(name, cfg, outcome) ==
  /\ Open
  /\ Bounded
  /\ IF name \in DOMAIN servers
     THEN LET i == servers[name]
              w1 == [World EXCEPT !.svc[i].Config = cfg]
          IN /\ SetWorld(Restart(w1, i, outcome))
             /\ apiResult' = [op |-> "deploy", name |-> name, err |-> FALSE]
             /\ UNCHANGED servers
     ELSE LET i == Len(svc) + 1
              w1 == [World EXCEPT !.svc = Append(@, NewMcpService(name, cfg))]
              r == Start(w1, i, outcome, "none")
          IN IF r.err
             THEN \* the instance is dropped, not what Start did to the ports
                  /\ SetWorld([r.w EXCEPT !.svc = svc])
                  /\ apiResult' = [op |-> "deploy", name |-> name, err |-> TRUE]
                  /\ UNCHANGED servers
             ELSE /\ SetWorld(r.w)
                  /\ servers' = MapPut(servers, name, i)
                  /\ apiResult' = [op |-> "deploy", name |-> name, err |-> FALSE]
  /\ savedConfig' = IF name \notin DOMAIN servers /\ ~apiResult'.err
                    THEN saveConfig(servers', svc')
                    ELSE savedConfig
  /\ UNCHANGED <<retryMax, crashed, shutdown>>
  /\ UNCHANGED <<sessionVars, gcVars, portVars>>

\* ServiceManager.DeleteServer
DeleteServer(name) ==
  /\ Open
  /\ IF name \in DOMAIN servers
     THEN /\ SetWorld(Stop(World, servers[name], TRUE))
          /\ servers' = MapDelete(servers, name)
          /\ apiResult' = [op |-> "delete", name |-> name, err |-> FALSE]
     ELSE /\ apiResult' = [op |-> "delete", name |-> name, err |-> TRUE]
          /\ UNCHANGED <<svc, servers, usedPorts, nextPort, procs, sigClosed, mon>>
  /\ savedConfig' = IF name \in DOMAIN servers
                    THEN saveConfig(servers', svc')
                    ELSE savedConfig
  /\ UNCHANGED <<retryMax, crashed, shutdown>>
  /\ UNCHANGED <<sessionVars, gcVars, portVars>>

\* ServiceManager.StopServer
StopServer(name) ==
  /\ Open
  /\ IF name \in DOMAIN servers
     THEN SetWorld(Stop(World, servers[name], TRUE))
     ELSE UNCHANGED <<svc, usedPorts, nextPort, procs, sigClosed, mon>>
  /\ apiResult' = [op |-> "stop", name |-> name, err |-> FALSE]
  /\ UNCHANGED <<retryMax, servers, crashed, shutdown>>
  /\ UNCHANGED savedConfig
  /\ UNCHANGED <<sessionVars, gcVars, portVars>>

\* McpService.Stop for every object of S (the loop of ServiceManager.Close)
RECURSIVE StopAll(_, _)
StopAll(w, S) ==
  IF S = {} THEN w
  ELSE LET i == CHOOSE x \in S : TRUE IN StopAll(Stop(w, i, TRUE), S \ {i})

\* ServiceManager.Close, called once by main at shutdown: under both locks,
\* close and drop every session, then stop and drop every server
ManagerClose ==
  /\ Open
  /\ psMutex = "none"
  /\ proxySessions' = EmptyMap
  /\ SetWorld(StopAll(World, {servers[n] : n \in DOMAIN servers}))
  /\ servers' = EmptyMap
  /\ shutdown' = TRUE
  /\ apiResult' = [op |-> "close", name |-> <<>>, err |-> FALSE]
  /\ UNCHANGED <<retryMax, crashed, nextSession, psMutex, gc, mgrClock>>
  /\ UNCHANGED savedConfig
  /\ UNCHANGED <<sessionVars, portVars>>

NextService ==
  \/ \E name \in McpNames, cfg \in Configs, outcome \in StartOutcomes :
       DeployServer(name, cfg, outcome)
  \/ \E name \in McpNames : DeleteServer(name)
  \/ \E name \in McpNames : StopServer(name)
  \/ \E c \in DOMAIN procs, state \in {"exit0", "exitErr"} : ChildExit(c, state)
  \/ \E c \in DOMAIN procs : Write(c)
  \/ \E m \in DOMAIN mon : MonStart(m)
  \/ \E m \in DOMAIN mon : MonSelect(m)
  \/ \E m \in DOMAIN mon : MonWaitCall(m)
  \/ \E m \in DOMAIN mon, outcome \in StartOutcomes : MonWaitReturn(m, outcome)
  \/ ManagerClose

SpecService == InitSpecService /\ [][NextService]_vars

(***************************************************************************)
(* ServiceManager: the proxy sessions and loopGC                           *)
(*                                                                         *)
(* A session of the map is its LastReceiveTime, the servers it subscribed  *)
(* to and whether Session.Close was called on it.  psMutex is "none" or    *)
(* the holder of proxySessionsMutex; the mutex is not reentrant.  gc is    *)
(* the GC goroutine: asleep, ranging over the map in a pass that began at  *)
(* gc.now, or in Lock() for the session gc.cur it has just closed;         *)
(* gc.defers counts the deferred Unlock calls of the pass, which run when  *)
(* the pass returns.                                                       *)
(***************************************************************************)
\* time passes
Tick ==
  /\ mgrClock < MaxTime
  /\ mgrClock' = mgrClock + 1
  /\ UNCHANGED <<proxySessions, nextSession, psMutex, gc>>
  /\ UNCHANGED <<sessionVars, serviceVars, portVars>>

\* the servers CreateProxySession subscribes the new session to
RunningServers == {n \in DOMAIN servers : svc[servers[n]].Status = "running"}

\* ServiceManager.CreateProxySession: NewSession, the subscriptions, and the
\* insertion under the mutex
CreateProxySession ==
  /\ Open
  /\ nextSession < MaxSessions
  /\ psMutex = "none"
  /\ nextSession' = nextSession + 1
  /\ proxySessions' = MapPut(proxySessions, nextSession + 1,
                             [LastReceiveTime |-> mgrClock,
                              lastInbound |-> <<>>,
                              subscribed |-> RunningServers,
                              closed |-> FALSE])
  /\ UNCHANGED <<psMutex, gc, mgrClock>>
  /\ UNCHANGED <<sessionVars, serviceVars, portVars>>

\* an inbound event of session id: a client message handled by
\* Session.SendMessage, or a backend event handled by the session's reader.
\* Neither assigns LastReceiveTime (its only assignment besides NewSession is
\* in AddReceive, which nothing calls); lastInbound records when the event
\* came (<<>>: no event yet)
InboundEvent(id) ==
  /\ Open
  /\ id \in DOMAIN proxySessions
  /\ ~proxySessions[id].closed
  /\ proxySessions' = [proxySessions EXCEPT ![id].lastInbound = <<mgrClock>>]
  /\ UNCHANGED <<nextSession, psMutex, gc, mgrClock>>
  /\ UNCHANGED <<sessionVars, serviceVars, portVars>>

\* ServiceManager.CloseProxySession
CloseProxySession(id) ==
  /\ Open
  /\ id \in DOMAIN proxySessions
  /\ psMutex = "none"
  /\ proxySessions' = MapDelete(proxySessions, id)
  /\ UNCHANGED <<nextSession, psMutex, gc, mgrClock>>
  /\ UNCHANGED <<sessionVars, serviceVars, portVars>>

\* loopGC: the condition of line 270
Expired(now, session) == now - session.LastReceiveTime > ProxySessionTimeout

\* loopGC: the ticker fires, a pass begins
GCTick ==
  /\ Alive
  /\ gc.pc = "sleep"
  /\ gc' = [pc |-> "range", now |-> mgrClock, start |-> DOMAIN proxySessions,
            visited |-> {}, cur |-> 0, defers |-> 0]
  /\ UNCHANGED <<proxySessions, nextSession, psMutex, mgrClock>>
  /\ UNCHANGED <<sessionVars, serviceVars, portVars>>

\* loopGC: the range reaches session id; an expired one is closed
GCVisit(id) ==
  /\ Alive
  /\ gc.pc = "range"
  /\ id \in DOMAIN proxySessions \ gc.visited
  /\ IF Expired(gc.now, proxySessions[id])
     THEN /\ proxySessions' = [proxySessions EXCEPT ![id].closed = TRUE]
          /\ gc' = [gc EXCEPT !.pc = "lock", !.cur = id,
                              !.visited = @ \cup {id}]
     ELSE /\ gc' = [gc EXCEPT !.visited = @ \cup {id}]
          /\ UNCHANGED proxySessions
  /\ UNCHANGED <<nextSession, psMutex, mgrClock>>
  /\ UNCHANGED <<sessionVars, serviceVars, portVars>>

\* loopGC: Lock() returns, Unlock is deferred, the session is deleted
GCLock ==
  /\ Alive
  /\ gc.pc = "lock"
  /\ psMutex = "none"
  /\ psMutex' = "gc"
  /\ proxySessions' = MapDelete(proxySessions, gc.cur)
  /\ gc' = [gc EXCEPT !.pc = "range", !.cur = 0, !.defers = @ + 1]
  /\ UNCHANGED <<nextSession, mgrClock>>
  /\ UNCHANGED <<sessionVars, serviceVars, portVars>>

\* loopGC: the range is over (a session inserted during the range may have
\* been skipped), the pass returns and its deferred calls run
GCEnd ==
  /\ Alive
  /\ gc.pc = "range"
  /\ (gc.start \cap DOMAIN proxySessions) \subseteq gc.visited
  /\ psMutex' = IF gc.defers > 0 THEN "none" ELSE psMutex
  /\ gc' = IdleGC
  /\ UNCHANGED <<proxySessions, nextSession, mgrClock>>
  /\ UNCHANGED <<sessionVars, serviceVars, portVars>>

GCStep == GCTick \/ (\E id \in DOMAIN proxySessions : GCVisit(id)) \/ GCLock \/ GCEnd

NextGC ==
  \/ Tick
  \/ CreateProxySession
  \/ \E id \in DOMAIN proxySessions : CloseProxySession(id)
  \/ \E id \in DOMAIN proxySessions : InboundEvent(id)
  \/ GCTick
  \/ \E id \in DOMAIN proxySessions : GCVisit(id)
  \/ GCLock
  \/ GCEnd
  \/ ManagerClose

SpecGC == InitSpecGC /\ [][NextGC]_vars

\* the GC goroutine is scheduled as long as it can take a step
SpecGCFair == InitSpecGC /\ [][NextGC]_vars /\ WF_vars(GCStep)

(***************************************************************************)
(* Claims about the manager and the services                               *)
(***************************************************************************)
\* session id is in the map and idle at the tick of the running GC pass
IdleAtTick(id) ==
  /\ gc.pc # "sleep"
  /\ id \in DOMAIN proxySessions
  /\ Expired(gc.now, proxySessions[id])

\* C6: every session that is idle at a GC tick is closed and removed from the
\* session map by that pass, however many sessions are idle at that tick
C6_IdleSessionsRemoved ==
  \A id \in 1..MaxSessions : IdleAtTick(id) ~> (id \notin DOMAIN proxySessions)

\* C7: once ServiceManager.Close has returned, no child process runs, no port
\* is in use, and the session map and the registry are empty, in that state
\* and in every later one
C7_NothingLeftAfterClose ==
  shutdown =>
    /\ \A c \in DOMAIN procs : procs[c].state # "running"
    /\ usedPorts = {}
    /\ proxySessions = EmptyMap
    /\ servers = EmptyMap

\* C8: the exit of a child that an explicit stop (Stop, delete, shutdown, the
\* "exited" log line) killed is a normal shutdown: no monitor starts a child
\* after it
C8_NoRestartAfterStop ==
  \A c \in DOMAIN procs : procs[c].after # "killed"

\* C9: when a monitor gives up because the retry count is exceeded, the
\* backend has status failed and no port, its port is not in use any more,
\* and the registry keeps its entries
C9_GiveUpIsFailed ==
  [][\A m \in DOMAIN mon :
       (mon[m].pc = "wait" /\ mon'[m].pc = "gaveup") =>
         /\ svc'[mon[m].inst].Status = "failed"
         /\ svc'[mon[m].inst].Port = 0
         /\ svc[mon[m].inst].Port \notin usedPorts'
         /\ servers' = servers]_vars

\* the children of object i that a monitor started
AutoRestarts(i) ==
  {c \in DOMAIN procs : procs[c].inst = i /\ procs[c].after # "none"}

\* C10: over the life of a backend its monitors restart it at most M times,
\* M the configured maximum retry count
C10_RestartsBounded ==
  \A i \in DOMAIN svc : Cardinality(AutoRestarts(i)) <= retryMax

(***************************************************************************)
(* The port pool (PortManagerI) and its callers                            *)
(*                                                                         *)
(* GetNextAvailablePort and ReleasePort run under portMutex from their     *)
(* first statement to their last, so concurrent calls are calls in some    *)
(* order.  portCall is the last call, the port it returned or was given,   *)
(* and the number of allocations so far; held pairs each port that is      *)
(* handed out and not released with the allocation that returned it.       *)
(***************************************************************************)
\* the ports a caller may pass to ReleasePort
PortRange == BasePort..(BasePort + MaxAllocs)

\* a caller calls GetNextAvailablePort
AllocatePort ==
  /\ portCall.n < MaxAllocs
  /\ LET port == GetNextAvailablePort(usedPorts, nextPort) IN
       /\ usedPorts' = usedPorts \cup {port}
       /\ nextPort' = port + 1
       /\ held' = held \cup {<<portCall.n + 1, port>>}
       /\ issued' = issued \cup {port}
       /\ portCall' = [op |-> "alloc", port |-> port, n |-> portCall.n + 1]
  /\ UNCHANGED <<retryMax, svc, servers, procs, sigClosed, mon, crashed,
                 shutdown, apiResult>>
  /\ UNCHANGED savedConfig
  /\ UNCHANGED <<sessionVars, gcVars>>

\* a caller calls ReleasePort(port), for a port it holds or any other
ReleasePortCall(port) ==
  /\ usedPorts' = ReleasePort(usedPorts, port)
  /\ held' = {h \in held : h[2] # port}
  /\ portCall' = [op |-> "release", port |-> port, n |-> portCall.n]
  /\ UNCHANGED <<retryMax, svc, servers, nextPort, procs, sigClosed, mon,
                 crashed, shutdown, apiResult, issued>>
  /\ UNCHANGED savedConfig
  /\ UNCHANGED <<sessionVars, gcVars>>

NextPorts ==
  \/ AllocatePort
  \/ \E port \in PortRange : ReleasePortCall(port)

InitSpecPorts == Init({0})

SpecPorts == InitSpecPorts /\ [][NextPorts]_vars

(***************************************************************************)
(* Claims about the port pool                                              *)
(***************************************************************************)
\* this step is a call of GetNextAvailablePort
IsAlloc == portCall'.n = portCall.n + 1

\* this step is a call of ReleasePort
IsRelease == portCall'.op = "release" /\ portCall'.n = portCall.n

\* C11: GetNextAvailablePort never returns a port that is in the used set or
\* that a caller still holds, so no two ports held at the same time are equal
C11_NoPortTwiceAtOnce ==
  [][IsAlloc =>
       /\ portCall'.port \notin usedPorts
       /\ \A h \in held : h[2] # portCall'.port
       /\ \A a, b \in held' : a[2] = b[2] => a = b]_vars

\* two ports are held, after a release and a later allocation
C11_Witness ==
  /\ portCall.op = "alloc"
  /\ Cardinality(held) >= 2
  /\ Cardinality(issued) > Cardinality(held)

\* C12: GetNextAvailablePort returns the smallest port p >= nextPort that is
\* not used, marks it used and leaves nextPort = p + 1; p >= 10000, and the
\* used set never contains nextPort
C12_SmallestFreePort ==
  [][IsAlloc =>
       LET p == portCall'.port IN
       /\ p >= nextPort /\ p >= 10000
       /\ p \notin usedPorts
       /\ \A q \in nextPort..(p - 1) : q \in usedPorts
       /\ usedPorts' = usedPorts \cup {p}
       /\ nextPort' = p + 1
       /\ nextPort' \notin usedPorts']_vars

\* the third allocation has returned, the first two ports still in use
C12_Witness ==
  /\ portCall.op = "alloc"
  /\ portCall.n = 3
  /\ Cardinality(usedPorts) = 3

\* C13: ReleasePort(p) removes p from the used set and changes neither
\* nextPort nor another entry; for a p that is not used nothing changes; and
\* no port is returned by GetNextAvailablePort twice
C13_ReleaseFrame ==
  [][/\ IsRelease =>
          /\ usedPorts' = usedPorts \ {portCall'.port}
          /\ nextPort' = nextPort
          /\ portCall'.port \notin usedPorts => usedPorts' = usedPorts
     /\ IsAlloc => portCall'.port \notin issued]_vars

\* a port was released while another stayed in use, and a port was handed
\* out after that
C13_Witness ==
  /\ portCall.op = "alloc"
  /\ \E p \in issued : p \notin usedPorts
  /\ \E p \in usedPorts : p # portCall.port

(***************************************************************************)
(* Claims about the registry                                               *)
(***************************************************************************)
\* C14: when DeployServer(n, c) returns success, for a new or a registered
\* name, the registry contains n, the config of n is c and the status of n
\* is running, starting or failed
C14_DeployResult ==
  [][\A name \in McpNames, cfg \in Configs, outcome \in StartOutcomes :
       (DeployServer(name, cfg, outcome) /\ ~apiResult'.err) =>
         /\ name \in DOMAIN servers'
         /\ svc'[servers'[name]].Config = cfg
         /\ svc'[servers'[name]].Status \in {"running", "starting", "failed"}]_vars

\* a redeploy of a registered name has returned success although Start
\* failed: the backend is starting
C14_Witness ==
  /\ apiResult.op = "deploy" /\ ~apiResult.err
  /\ apiResult.name \in DOMAIN servers
  /\ svc[servers[apiResult.name]].Status = "starting"
  /\ Len(procs) >= 1

\* C15: DeleteServer(n) for a registered n removes n, leaves the port of n
\* unused and changes no other entry; for an unregistered n it fails and
\* changes nothing
C15_DeleteFrees ==
  [][\A name \in McpNames :
       DeleteServer(name) =>
         IF name \in DOMAIN servers
         THEN /\ ~apiResult'.err
              /\ name \notin DOMAIN servers'
              /\ svc[servers[name]].Port \notin usedPorts'
              /\ \A n \in DOMAIN servers \ {name} :
                   n \in DOMAIN servers' /\ servers'[n] = servers[n]
                   /\ svc'[servers[n]] = svc[servers[n]]
         ELSE apiResult'.err /\ servers' = servers /\ svc' = svc]_vars

\* C16: after a deploy of a new name, a redeploy of a registered name and
\* a delete, the persisted document is the name -> config map of the
\* registry
C16_SavedIsRegistry ==
  [][(\/ \E name \in McpNames, cfg \in Configs, outcome \in StartOutcomes :
           DeployServer(name, cfg, outcome) /\ ~apiResult'.err
      \/ \E name \in McpNames : DeleteServer(name) /\ ~apiResult'.err)
       => savedConfig' = saveConfig(servers', svc')]_vars

\* C17: a Start that fails after it allocated a port releases the port: a
\* DeployServer of a new name that returns the error of Start leaves the
\* used set as it was
C17_FailedStartFreesPort ==
  [][\A name \in McpNames, cfg \in Configs, outcome \in StartOutcomes :
       (DeployServer(name, cfg, outcome) /\ name \notin DOMAIN servers
          /\ apiResult'.err)
         => usedPorts' = usedPorts]_vars

(***************************************************************************)
(* More claims about the session                                           *)
(***************************************************************************)
\* the first SendMessage call was a broadcast and has returned
BroadcastReturned ==
  /\ sm.pc = "idle" /\ sm.n = 1 /\ nreq = 1
  /\ sm.single = <<>>
  /\ smResult # "not ready"

\* C18: a POST that fails during a broadcast neither fails the call nor ends
\* the loop: SendMessage returns success, every backend that was in
\* mcpMessageUrl has been POSTed to, and for tools/list the counter was
\* raised once for each POST that succeeded (it is lowered once for each
\* tools answer handled, and each of those put one event on the channel)
C18_BroadcastSkipsFailures ==
  BroadcastReturned =>
    /\ smResult = "ok"
    /\ sm.snap \subseteq {p.to : p \in posts}
    /\ waitToolsCount =
         (IF sm.req.method = "tools/list" THEN Cardinality(PostedOk) ELSE 0)
           - Cardinality(ToolsEvents(1))

\* a tools/list broadcast to two backends has returned, one POST failed and
\* the other succeeded
C18_Witness ==
  /\ BroadcastReturned
  /\ sm.req.method = "tools/list"
  /\ Cardinality(posts) = 2
  /\ Cardinality(PostedOk) = 1
  /\ waitToolsCount = 1

\* C19: a Session.Close call that has started returns, whatever the readers
\* do meanwhile, and by then every reader has exited
C19_CloseTerminates ==
  (closing.pc \in {"range", "wait"}) ~> (closing.pc = "done" /\ sseCount = 0 /\ sseConns = {})

\* C20: the GC loop does not remove a session whose latest inbound event is
\* less than the idle timeout old when the pass begins
C20_RecentSessionKept ==
  [][\A id \in DOMAIN proxySessions :
       (/\ GCVisit(id)
        /\ proxySessions[id].lastInbound # <<>>
        /\ gc.now - proxySessions[id].lastInbound[1] < ProxySessionTimeout)
         => ~proxySessions'[id].closed]_vars

\* the number of time.Sleep(time.Second) calls the SendMessage call has made
\* in its readiness loop (try starts at 3 and is lowered after each)
Waits == 3 - sm.try

\* C21: a SendMessage call that returns "service not ready" has waited at
\* most three times, has POSTed nothing, has added nothing to messageIds and
\* has left waitToolsCount as it was (the first call of a session starts with
\* no mapping and a counter of 0)
C21_NotReadyAfterThreeWaits ==
  (sm.pc = "idle" /\ sm.n = 1 /\ smResult = "not ready") =>
    /\ Waits <= 3
    /\ posts = {}
    /\ messageIds = EmptyMap
    /\ waitToolsCount = 0

C23_IdsArePosted ==
  \A g \in DOMAIN messageIds : \E p \in posts : p.ok /\ p.id = <<g>>

\* the requests that were POSTed with success and whose answers the readers
\* have not read yet
InFlight == UNION {inbox[b] : b \in McpNames}

\* C24: the gateway ids of the in-flight requests of the session are
\* pairwise distinct, the per-backend sends of one broadcast included
C24_GatewayIdsDistinct ==
  \A p, q \in InFlight : p # q => p.id # q.id

\* the backends the session subscribed to
Subscribed == {b \in McpNames : readers[b] # "none"}

\* C25: sseCount is the number of reader tasks that were started and have
\* not terminated, and sseCount <= |mcpMessageUrl| <= number of backends the
\* session subscribed to
C25_CountAtMostEndpoints ==
  /\ sseCount = Cardinality({b \in McpNames : ReaderExists(b)})
  /\ sseCount <= Cardinality(mcpMessageUrl)
  /\ Cardinality(mcpMessageUrl) <= Cardinality(Subscribed)

\* C25, amended: sseCount is the number of reader tasks that were started
\* and have not terminated; it and |mcpMessageUrl| are at most the number of
\* backends the session subscribed to
C25_CountsAtMostSubscribed ==
  /\ sseCount = Cardinality({b \in McpNames : ReaderExists(b)})
  /\ sseCount <= Cardinality(Subscribed)
  /\ Cardinality(mcpMessageUrl) <= Cardinality(Subscribed)

\* two backends subscribed, one reader has failed to connect and exited, the
\* other has connected and not yet read its endpoint event: one reader
\* counted, no endpoint recorded
C25_Witness ==
  /\ Cardinality(Subscribed) = 2
  /\ \E b \in McpNames : readers[b] = "exited"
  /\ \E b \in McpNames : readers[b] = "connected"
  /\ sseCount = 1
  /\ mcpMessageUrl = {}

(***************************************************************************)
(* More claims about the registry and the McpService objects               *)
(***************************************************************************)
\* DeployServer(name, cfg) finds name registered, and the Start call of the
\* Restart it makes returns an error
RestartStartFails(name, cfg, outcome) ==
  /\ name \in DOMAIN servers
  /\ LET i == servers[name]
         w1 == [World EXCEPT !.svc[i].Config = cfg]
     IN /\ ~IsSSE(w1.svc[i])
        /\ Start(Stop(w1, i, TRUE), i, outcome, "none").err

\* C26: a DeployServer call for a registered name whose restart fails in its
\* start step returns an error
C26_RedeployReportsStartError ==
  [][\A name \in McpNames, cfg \in Configs, outcome \in StartOutcomes :
       (DeployServer(name, cfg, outcome) /\ RestartStartFails(name, cfg, outcome))
         => apiResult'.err]_vars

\* object i has a child process that runs
HasChild(i) ==
  \E c \in 1..Len(procs) : procs[c].inst = i /\ procs[c].state = "running"

\* C27: a registered backend whose config is URL-only has status running,
\* port 0 and no child process; a registered backend whose status is stopped
\* has port 0 and no child process
C27_UrlOnlyHasNoProcess ==
  \A name \in DOMAIN servers :
    LET i == servers[name] IN
      /\ IsSSE(svc[i]) =>
           svc[i].Status = "running" /\ svc[i].Port = 0 /\ ~HasChild(i)
      /\ svc[i].Status = "stopped" =>
           svc[i].Port = 0 /\ ~HasChild(i)

(***************************************************************************)
(* More claims about the session map and loopGC                            *)
(***************************************************************************)
\* C28: every GC pass that begins also ends, with the mutex of the session
\* map released, however many sessions of the pass are expired
C28_PassEndsUnlocked ==
  (gc.pc # "sleep") ~> (gc.pc = "sleep" /\ psMutex = "none")

\* the monitorProcess goroutines of object i that are in their loop
Monitors(i) ==
  {m \in 1..Len(mon) : mon[m].inst = i /\ mon[m].pc \in {"top", "default", "wait"}}

\* C29: at any time an McpService object has at most one monitor task in
\* its loop
C29_OneMonitor ==
  \A i \in 1..Len(svc) : Cardinality(Monitors(i)) <= 1

\* C30: waitToolsCount is never negative: the readers never lower it more
\* often than SendMessage has raised it
C30_WaitToolsCountNotNegative == waitToolsCount >= 0

====
